---- MODULE Spec2Model ----
(***************************************************************************)
(* Model of the channel_est receive pipeline.                              *)
(*                                                                         *)
(*  - PktTrigger (src/src/pkt_trigger.rs): the streaming, energy based     *)
(*    packet trigger, one action per push_samp call.                       *)
(*  - lts_align (src/src/lts_align.rs) and parse_80211_pkt                 *)
(*    (src/src/parse_80211.rs): the cross-correlation aligner, the slices  *)
(*    the parser takes around the offset it returns, the equalisation      *)
(*    (src/src/equalization.rs) and the data-symbol loop.                  *)
(*  - estimate_cfo (src/src/cfo.rs), in the phase domain.                  *)
(*  - run_tx, run_rx and the Ctrl-C handler of the monitor                 *)
(*    (src/src/channel_monitor.rs), as threads sharing the close flag.     *)
(*                                                                         *)
(* Samples of the trigger are represented by their magnitude in half       *)
(* units (a sample a has |s| = a/2, |s|^2 = a*a/4); power_trig is in the   *)
(* same half units (p stands for p/2).  Samples of the aligner are         *)
(* Gaussian integers <<re, im>>, on which f32 arithmetic is exact.         *)
(***************************************************************************)
EXTENDS Integers, Sequences, FiniteSets, TLC

VARIABLES
    \* ChannelEstConfig (src/src/config.rs:11-29)
    stabilize_samps, power_trig, pkt_spacing,
    \* PktTrigger (src/src/pkt_trigger.rs:18-24)
    state, hist,
    \* return value of the last push_samp call
    ret,
    \* history of the run: the samples pushed so far, the number of samples
    \* handled in each state, the stream index of the sample that opened the
    \* current packet and of the last one that set the quiet counter to 0,
    \* and the buffers emitted so far
    stream, skipped, idleCount, openAt, resetAt, opens, emits,
    \* the build profile (overflow checks on: usize underflow panics; off: it
    \* wraps), a candidate buffer, and the outcome of the last call of
    \* lts_align and of parse_80211_pkt on it
    overflow_checks, samps, align_ret, parse_ret,
    \* how the candidate buffer was put together, when it is a whole packet
    layout,
    \* the input of estimate_cfo (the rotation the preambles were built with
    \* and the lengths of the training sequences) and its outcome
    cfo_in, cfo_ret,
    \* the monitor: MonitorConfig, the shared close flag, and where the
    \* transmitter thread and the receiver thread are, with their locals
    mon, close, tx, rx

trigVars == <<stabilize_samps, power_trig, pkt_spacing, state, hist, ret,
              stream, skipped, idleCount, openAt, resetAt, opens, emits>>

alignVars == <<overflow_checks, samps, align_ret, parse_ret, layout>>

cfoVars == <<cfo_in, cfo_ret>>

monVars == <<mon, close, tx, rx>>

vars == <<trigVars, alignVars, cfoVars, monVars>>

----------------------------------------------------------------------------
(* Bounds of the model *)

MaxSamples == 7
MaxStabilize == 1
MaxSpacing == 2
\* candidate buffers: leading zeros, a short burst, LTS repeats, trailing zeros
MaxLead == 12
MaxBurst == 2
MaxTail == 14
\* whole packets: the number of data symbols
MaxSymbols == 2
\* the largest rotation per sample, in units of 1e-4 rad: 0.5 rad
MaxPhi == 5000
\* the monitor: num_repeats, samples per received buffer, packets emitted
MaxRepeats == 2
MaxRecv == 2
MaxPkts == 2

\* magnitudes (half units): 0, 0.5, 1.5, 2.0
Amps == {0, 1, 3, 4}
\* power_trig (half units): 0.5 and 2.0, one below and one above 1
PowerTrigs == {1, 4}

\* Option<Vec<..>>: None is the empty sequence, Some(b) the sequence <<b>>
None == <<>>
Some(b) == <<b>>

----------------------------------------------------------------------------
(* The training sequences of the configuration, scaled down: an STS of one *)
(* sample and an LTS of four (the code requires L divisible by 4).  Like   *)
(* the 802.11 LTS, whose DC subcarrier is unused (config.rs:144), the LTS  *)
(* sums to zero: its frequency-domain reference is (absent, 4, 4i, 4).     *)

sts == << <<1, 0>> >>

lts == << <<2, 1>>, <<0, -1>>, <<-2, 1>>, <<0, -1>> >>

\* z * i^q
Rot(z, q) ==
    CASE q % 4 = 0 -> z
      [] q % 4 = 1 -> <<-z[2], z[1]>>
      [] q % 4 = 2 -> <<-z[1], -z[2]>>
      [] q % 4 = 3 -> <<z[2], -z[1]>>

RECURSIVE FftSum(_, _, _)
\* sum over n (0-based, from n up) of x[n] * e^(2 pi i k n / 4)
FftSum(x, k, n) ==
    IF n >= Len(x) THEN <<0, 0>>
    ELSE LET t == Rot(x[n + 1], k * n)
             r == FftSum(x, k, n + 1)
         IN <<t[1] + r[1], t[2] + r[2]>>

\* FFTplanner::new(true).plan_fft(4): the unnormalised inverse-direction DFT
\* of four samples, exact on Gaussian integers
Fft(x) == [k \in 1..Len(x) |-> FftSum(x, k - 1, 0)]

Max(a, b) == IF a > b THEN a ELSE b

RECURSIVE MaxNormSqr(_, _)
\* the fold that finds the largest norm_sqr of the elements from j on
MaxNormSqr(f, j) ==
    IF j > Len(f) THEN 0
    ELSE Max(f[j][1] * f[j][1] + f[j][2] * f[j][2], MaxNormSqr(f, j + 1))

\* x.norm() < lts_max * 0.01, on the squares
BelowOnePercent(x, maxsqr) == 10000 * (x[1] * x[1] + x[2] * x[2]) < maxsqr

\* read_lts: the second component of config.lts, the frequency-domain
\* reference with None where the subcarrier is not used
lts_freq ==
    LET f == Fft(lts) IN
    [k \in 1..Len(lts) |->
        IF BelowOnePercent(f[k], MaxNormSqr(f, 1)) THEN None ELSE Some(f[k])]

----------------------------------------------------------------------------
(* usize arithmetic.  A usize that wrapped below zero is kept as the       *)
(* negative integer v that stands for 2^64 + v; every such value is larger *)
(* than any buffer length.                                                 *)

Panic(at) == [panic |-> TRUE, at |-> at]

NotCalled == [panic |-> FALSE, called |-> FALSE]

\* a - b underflows
Underflows(a, b) == a >= 0 /\ a < b

\* buf[lo..hi] is in range: lo <= hi <= buf.len() as usize values
SliceOk(lo, hi, len) == lo >= 0 /\ hi >= 0 /\ lo <= hi /\ hi <= len

\* buf[lo..hi], 0-based and half open
Slice(buf, lo, hi) == SubSeq(buf, lo + 1, hi)

----------------------------------------------------------------------------
(* lts_align *)

\* l.conj() * p
ConjMul(l, p) == <<l[1] * p[1] + l[2] * p[2], l[1] * p[2] - l[2] * p[1]>>

NormSqr(z) == z[1] * z[1] + z[2] * z[2]

RECURSIVE CorrSum(_, _, _, _)
\* sum over k (0-based, from k up) of l[k].conj() * pkt[i + k]
CorrSum(pkt, l, i, k) ==
    IF k >= Len(l) THEN <<0, 0>>
    ELSE LET t == ConjMul(l[k + 1], pkt[i + k + 1])
             r == CorrSum(pkt, l, i, k + 1)
         IN <<t[1] + r[1], t[2] + r[2]>>

\* corr: entry i (0-based) at position i + 1, for i in 0..pkt.len() - lts.len()
Corr(pkt, l) ==
    [j \in 1..(Len(pkt) - Len(l)) |-> NormSqr(CorrSum(pkt, l, j - 1, 0))]

\* if val > max { max = val; max_idx = i }
Better(val, max) == val > max

RECURSIVE PeakLoop(_, _, _, _, _, _)
\* the loop over i in 0..n that keeps (max, max_idx)
PeakLoop(corr, llen, n, i, max, max_idx) ==
    IF i >= n THEN max_idx
    ELSE LET val == corr[i + 1] * corr[i + llen + 1] IN
         IF Better(val, max)
         THEN PeakLoop(corr, llen, n, i + 1, val, i)
         ELSE PeakLoop(corr, llen, n, i + 1, max, max_idx)

\* max_idx - lts.len() / 2
GuardShift(max_idx, llen) == max_idx - llen \div 2

\* lts_align(pkt, lts): a panic, or the returned offset with the max_idx it
\* was computed from.  With pkt shorter than lts (or than two of them) the
\* range bound underflows: a panic with overflow checks, and without them a
\* range that runs off the end of pkt (of corr), a panic as well.
lts_align(pkt, l) ==
    IF Len(pkt) < Len(l) THEN Panic("lts_align: corr range")
    ELSE IF Len(pkt) < 2 * Len(l) THEN Panic("lts_align: peak range")
    ELSE LET max_idx == PeakLoop(Corr(pkt, l), Len(l), Len(pkt) - 2 * Len(l), 0, 0, 0)
         IN IF Underflows(max_idx, Len(l) \div 2) /\ overflow_checks
            THEN Panic("lts_align: max_idx - lts.len() / 2")
            ELSE [panic |-> FALSE, called |-> TRUE,
                  val |-> GuardShift(max_idx, Len(l)), max_idx |-> max_idx,
                  n |-> Len(pkt)]

----------------------------------------------------------------------------
(* estimate_subcarrier_equalization and equalize_symbol.  The values of the *)
(* gains and of the equalised points (CFO rotation, FFT, complex division) *)
(* are not modelled: a gain records the reference it divides, a point the  *)
(* subcarrier it belongs to.  Which subcarriers are present, how many      *)
(* points come out and in which order are modelled exactly.                *)

\* every subcarrier given a gain, whatever the reference says
EqualizationAllPresent(long) ==
    IF Len(long) /= (5 * Len(lts)) \div 2
    THEN Panic("assert long.len()")
    ELSE [panic |-> FALSE,
          val |-> [k \in 1..Len(lts) |-> Some([ref |-> <<1, 0>>])]]

\* long_fft.zip(config.lts.1).map(Some(l) => Some(l / x), None => None)
estimate_subcarrier_equalization(long) ==
    IF Len(long) /= (5 * Len(lts)) \div 2
    THEN Panic("assert long.len()")
    ELSE [panic |-> FALSE,
          val |-> [k \in 1..Len(lts) |->
                     IF lts_freq[k] = None THEN None
                     ELSE Some([ref |-> lts_freq[k][1]])]]

RECURSIVE FilterMap(_, _)
\* ifft.zip(equalization).filter_map(|(s, e)| e.map(..)), from element k on
FilterMap(equalization, k) ==
    IF k > Len(equalization) THEN <<>>
    ELSE IF equalization[k] = None THEN FilterMap(equalization, k + 1)
    ELSE <<[k |-> k - 1]>> \o FilterMap(equalization, k + 1)

equalize_symbol(symbol, equalization) ==
    IF Len(symbol) /= Len(equalization) THEN Panic("assert samps.len()")
    ELSE [panic |-> FALSE, val |-> FilterMap(equalization, 1)]

----------------------------------------------------------------------------
(* parse_80211_pkt *)

short_len == 10 * Len(sts)

RECURSIVE SumSq(_, _)
\* iter().map(|x| x.norm_sqr()).sum(), from element j on
SumSq(s, j) ==
    IF j > Len(s) THEN 0
    ELSE s[j][1] * s[j][1] + s[j][2] * s[j][2] + SumSq(s, j + 1)

\* the end-of-packet test switched off
LowEnergyNever(symbol, long) == FALSE

\* rms < 0.1 * pkt_rms, on the squares
LowEnergy(symbol, long) == 100 * SumSq(symbol, 1) < SumSq(long, 1)

\* 5 * lts_len / 4: a cyclic prefix and a symbol
symbol_stride == (5 * Len(lts)) \div 4

\* while i < samps.len() - 5 * lts_len / 4
MoreSymbols(i, buf) == i < Len(buf) - symbol_stride

RECURSIVE SymbolLoop(_, _, _, _, _)
\* The data-symbol loop from position i on, with the points gathered so
\* far: yields the points, the position the loop stopped at and why.
SymbolLoop(buf, long, equalization, i, res) ==
    IF ~MoreSymbols(i, buf)
    THEN [panic |-> FALSE, res |-> res, i |-> i, stop |-> "end"]
    ELSE LET symbol == Slice(buf, i + Len(lts) \div 4, i + symbol_stride) IN
    IF LowEnergy(symbol, long)
    THEN [panic |-> FALSE, res |-> res, i |-> i, stop |-> "low"]
    ELSE LET e == equalize_symbol(symbol, equalization) IN
    IF e.panic THEN e
    ELSE SymbolLoop(buf, long, equalization, i + symbol_stride,
                    res \o [j \in 1..Len(e.val) |-> [at |-> i, k |-> e.val[j].k]])

\* assert!(samps.len() > 3 * lts_len / 2 + short_len)
LongEnough(buf) == Len(buf) > (3 * Len(lts)) \div 2 + short_len

lts_bound == pkt_spacing + short_len + (5 * Len(lts)) \div 2

parse_80211_pkt(buf) ==
    IF ~LongEnough(buf) THEN Panic("assert samps.len()")
    ELSE IF ~SliceOk(0, lts_bound, Len(buf)) THEN Panic("samps[..lts_bound]")
    ELSE LET a == lts_align(Slice(buf, 0, lts_bound), lts) IN
    IF a.panic THEN a
    ELSE LET lts_start == a.val
             long_end == lts_start + (5 * Len(lts)) \div 2
         IN
    IF Underflows(lts_start, short_len) /\ overflow_checks
    THEN Panic("lts_start - short_len")
    ELSE IF ~SliceOk(lts_start - short_len, lts_start, Len(buf))
    THEN Panic("samps[lts_start - short_len..lts_start]")
    ELSE IF ~SliceOk(lts_start, long_end, Len(buf))
    THEN Panic("samps[lts_start..lts_start + 5 * lts_len / 2]")
    ELSE LET short == Slice(buf, lts_start - short_len, lts_start)
             long == Slice(buf, lts_start, long_end)
             eq == estimate_subcarrier_equalization(long)
         IN
    IF eq.panic THEN eq
    ELSE IF Len(lts) % 4 /= 0 THEN Panic("assert lts_len % 4")
    ELSE LET loop == SymbolLoop(buf, long, eq.val, long_end, <<>>) IN
    IF loop.panic THEN loop
    ELSE [panic |-> FALSE, called |-> TRUE, lts_start |-> lts_start,
          max_idx |-> a.max_idx, short |-> short, long |-> long,
          equalization |-> eq.val, res |-> loop.res, i |-> loop.i,
          stop |-> loop.stop]

----------------------------------------------------------------------------
(* PktTrigger *)

Skip(n) == [tag |-> "Skip", n |-> n]
Idle == [tag |-> "Idle", n |-> 0]
Packet(n) == [tag |-> "Packet", n |-> n]

\* samp.norm_sqr() > power_trig : a*a/4 > p/2
EntersPacket(samp) == samp * samp > 2 * power_trig

\* samp.norm() >= power_trig : a/2 >= p/2
ContinuesPacket(samp) == samp >= power_trig

\* skip >= stabilize_samps
SkipOver(skip) == skip >= stabilize_samps

\* the comparison of the quiet counter made strict
QuietOverStrict(n) == n > pkt_spacing

\* the quiet counter found large enough one sample early
QuietOverEarly(n) == n + 1 >= pkt_spacing

\* n >= pkt_spacing
QuietOver(n) == n >= pkt_spacing

\* the idle history never trimmed
IdleTrimNever(h) == h

\* the idle history trimmed one sample late
IdleTrimLate(h) == IF Len(h) > pkt_spacing + 1 THEN Tail(h) ELSE h

\* the idle history trimmed at the back (pop_back for pop_front)
IdleTrimBack(h) == IF Len(h) > pkt_spacing THEN SubSeq(h, 1, Len(h) - 1) ELSE h

\* if hist.len() > pkt_spacing { hist.pop_front() }
IdleTrim(h) == IF Len(h) > pkt_spacing THEN Tail(h) ELSE h

\* the history cleared after an emit instead of pruned
PruneClear(h) == <<>>

\* while hist.len() > pkt_spacing { hist.pop_front() }
Prune(h) ==
    IF Len(h) > pkt_spacing
    THEN SubSeq(h, Len(h) - pkt_spacing + 1, Len(h))
    ELSE h

\* The three arms of the match in push_samp: each yields the new state, the
\* new history and the returned value.
SkipCase(skip) ==
    [state |-> IF SkipOver(skip) THEN Idle ELSE Skip(skip + 1),
     hist  |-> hist,
     ret   |-> None]

\* the Idle arm handing out the history as soon as a packet opens
IdleCaseEmits(samp) ==
    LET h == Append(hist, samp) IN
    IF samp * samp > 2 * power_trig
    THEN [state |-> Packet(0), hist |-> h, ret |-> Some(h)]
    ELSE [state |-> Idle,
          hist |-> IF Len(h) > pkt_spacing THEN Tail(h) ELSE h,
          ret |-> None]

IdleCase(samp) ==
    LET h == Append(hist, samp) IN
    IF EntersPacket(samp)
    THEN [state |-> Packet(0), hist |-> h, ret |-> None]
    ELSE [state |-> Idle, hist |-> IdleTrim(h), ret |-> None]

PacketCase(n, samp) ==
    LET h == Append(hist, samp) IN
    IF ContinuesPacket(samp)
    THEN [state |-> Packet(0), hist |-> h, ret |-> None]
    ELSE IF QuietOver(n)
         THEN [state |-> Idle, hist |-> Prune(h), ret |-> Some(h)]
         ELSE [state |-> Packet(n + 1), hist |-> h, ret |-> None]

PushResult(samp) ==
    CASE state.tag = "Skip"   -> SkipCase(state.n)
      [] state.tag = "Idle"   -> IdleCase(samp)
      [] state.tag = "Packet" -> PacketCase(state.n, samp)

\* PktTrigger::new, for every configuration within the bounds
TrigInit ==
    /\ stabilize_samps \in 0..MaxStabilize
    /\ power_trig \in PowerTrigs
    /\ pkt_spacing \in 0..MaxSpacing
    /\ state = Skip(0)
    /\ hist = <<>>
    /\ ret = None
    /\ stream = <<>>
    /\ skipped = 0
    /\ idleCount = 0
    /\ openAt = [pos |-> 0, idleBefore |-> 0, emitsBefore |-> 0]
    /\ resetAt = 0
    /\ opens = 0
    /\ emits = <<>>

\* One call of push_samp.  The history variables record, for each emitted
\* buffer, the stream index (1-based) of its last sample, of the sample that
\* caused Idle -> Packet and of the last sample that set the counter to 0,
\* and the number of samples handled in Idle and of buffers emitted before
\* the packet was opened.
push_samp(samp) ==
    /\ Len(stream) < MaxSamples
    /\ LET r   == PushResult(samp)
           pos == Len(stream) + 1
           opening == state.tag = "Idle" /\ r.state.tag = "Packet"
           reset == r.state = Packet(0)
       IN
        /\ state' = r.state
        /\ hist' = r.hist
        /\ ret' = r.ret
        /\ stream' = Append(stream, samp)
        /\ skipped' = IF state.tag = "Skip" THEN skipped + 1 ELSE skipped
        /\ idleCount' = IF state.tag = "Idle" THEN idleCount + 1 ELSE idleCount
        /\ openAt' = IF opening
                     THEN [pos |-> pos, idleBefore |-> idleCount,
                           emitsBefore |-> Len(emits)]
                     ELSE openAt
        /\ resetAt' = IF reset THEN pos ELSE resetAt
        /\ opens' = IF opening THEN opens + 1 ELSE opens
        /\ emits' = IF r.ret /= None
                    THEN Append(emits, [buf |-> r.ret[1], last |-> pos,
                                        open |-> openAt, reset |-> resetAt])
                    ELSE emits
    /\ UNCHANGED <<stabilize_samps, power_trig, pkt_spacing>>
    /\ UNCHANGED <<alignVars, cfoVars, monVars>>

NoLayout == [whole |-> FALSE]

\* estimate_cfo not used
CfoUnused ==
    /\ cfo_in = [phi |-> 0, sts_len |-> Len(sts), lts_len |-> Len(lts)]
    /\ cfo_ret = NotCalled

\* the monitor not started
MonUnused ==
    /\ mon = [num_repeats |-> 0, sts_len |-> Len(sts), lts_len |-> Len(lts),
              linked |-> FALSE]
    /\ close = FALSE
    /\ tx = [pc |-> "unused"]
    /\ rx = [pc |-> "unused"]

Init ==
    /\ TrigInit
    /\ overflow_checks = TRUE
    /\ samps = <<>>
    /\ align_ret = NotCalled
    /\ parse_ret = NotCalled
    /\ layout = NoLayout
    /\ CfoUnused
    /\ MonUnused

Next == \E samp \in Amps : push_samp(samp)

Spec == Init /\ [][Next]_vars

----------------------------------------------------------------------------
(* Candidate buffers and the calls made on them *)

Zero == <<0, 0>>

\* non-zero samples a burst is made of
BurstSamps == { <<1, 0>>, <<0, 1>> }

Zeros(n) == [i \in 1..n |-> Zero]

Bursts == UNION { [1..k -> BurstSamps] : k \in 0..MaxBurst }

LtsRepeats(c) == IF c = 0 THEN <<>> ELSE IF c = 1 THEN lts ELSE lts \o lts

AlignInit ==
    /\ stabilize_samps = 0
    /\ power_trig = 1
    /\ pkt_spacing \in 0..MaxSpacing
    /\ state = Skip(0)
    /\ hist = <<>>
    /\ ret = None
    /\ stream = <<>>
    /\ skipped = 0
    /\ idleCount = 0
    /\ openAt = [pos |-> 0, idleBefore |-> 0, emitsBefore |-> 0]
    /\ resetAt = 0
    /\ opens = 0
    /\ emits = <<>>
    /\ overflow_checks \in BOOLEAN
    /\ \E lead \in 0..MaxLead, b \in Bursts, c \in 0..2, tail \in 0..MaxTail :
          samps = Zeros(lead) \o b \o LtsRepeats(c) \o Zeros(tail)
    /\ align_ret = NotCalled
    /\ parse_ret = NotCalled
    /\ layout = NoLayout
    /\ CfoUnused
    /\ MonUnused

\* lts_align called on the whole buffer
CallLtsAlign ==
    /\ align_ret = NotCalled
    /\ align_ret' = lts_align(samps, lts)
    /\ UNCHANGED <<trigVars, overflow_checks, samps, parse_ret, layout, cfoVars, monVars>>

\* parse_80211_pkt called on the buffer
CallParse ==
    /\ parse_ret = NotCalled
    /\ parse_ret' = parse_80211_pkt(samps)
    /\ UNCHANGED <<trigVars, overflow_checks, samps, align_ret, layout, cfoVars, monVars>>

AlignNext == CallLtsAlign \/ CallParse

AlignSpec == AlignInit /\ [][AlignNext]_vars

----------------------------------------------------------------------------
(* Whole packets, put together as the parser's test does, and the parser   *)
(* called on them                                                          *)

\* the values a present subcarrier carries
DataValues == { <<1, 0>>, <<-1, 0>> }

\* the frequency-domain symbols: a value where the reference is present,
\* zero where it is absent
SymbolDatas ==
    { d \in [1..Len(lts) -> DataValues \cup {Zero}] :
        \A k \in 1..Len(lts) : (d[k] = Zero) <=> (lts_freq[k] = None) }

\* FFTplanner::new(false): the forward DFT, e^(-2 pi i k n / 4)
FftForward(x) == [k \in 1..Len(x) |-> FftSum(x, 3 * (k - 1), 0)]

\* a symbol on the air: the cyclic prefix (its last quarter), then the symbol
WithPrefix(d) ==
    LET s == FftForward(d)
    IN SubSeq(s, (3 * Len(s)) \div 4 + 1, Len(s)) \o s

RECURSIVE Concat(_)
Concat(ss) == IF ss = <<>> THEN <<>> ELSE Head(ss) \o Concat(Tail(ss))

\* sts.iter().cycle().take(10 * sts.len())
ShortPreamble == [i \in 1..(10 * Len(sts)) |-> sts[((i - 1) % Len(sts)) + 1]]

\* L/2 zeros and the LTS twice
LongPreamble == Zeros(Len(lts) \div 2) \o lts \o lts

\* trailing silence: from none to a sample more than the 2 L of the test
TailLens == 0..(2 * Len(lts) + 1)

WholePacket(lead, ds, tail) ==
    Zeros(lead) \o ShortPreamble \o LongPreamble
        \o Concat([j \in 1..Len(ds) |-> WithPrefix(ds[j])]) \o Zeros(tail)

ParseInit ==
    /\ stabilize_samps = 0
    /\ power_trig = 1
    /\ pkt_spacing \in 0..MaxSpacing
    /\ state = Skip(0)
    /\ hist = <<>>
    /\ ret = None
    /\ stream = <<>>
    /\ skipped = 0
    /\ idleCount = 0
    /\ openAt = [pos |-> 0, idleBefore |-> 0, emitsBefore |-> 0]
    /\ resetAt = 0
    /\ opens = 0
    /\ emits = <<>>
    /\ overflow_checks \in BOOLEAN
    /\ \E lead \in 0..MaxSpacing, n \in 0..MaxSymbols, tail \in TailLens :
        \E ds \in [1..n -> SymbolDatas] :
          /\ lead <= pkt_spacing
          /\ samps = WholePacket(lead, ds, tail)
          /\ layout = [whole |-> TRUE, lead |-> lead, n |-> n, tail |-> tail]
    /\ align_ret = NotCalled
    /\ parse_ret = NotCalled
    /\ CfoUnused
    /\ MonUnused

ParseNext == CallParse

ParseSpec == ParseInit /\ [][ParseNext]_vars

----------------------------------------------------------------------------
(* estimate_cfo on noise-free preambles rotated by phi per sample.  Phases *)
(* are integers in units of 1e-4 rad.  Sample i of the rotated preambles   *)
(* is the clean sample times e^(i phi i), so every term of the coarse sum  *)
(* conj(short[i]) short[i + S] has phase S phi and every term of the fine  *)
(* sum conj(long[i]) long[i + L] coarse_lts_corr has phase                 *)
(* L phi - coarse L: arg() of each sum is that phase, brought into         *)
(* (-pi, pi].  Rounding of f32 is not modelled.                            *)

\* 2 pi, in units of 1e-4 rad
TwoPi == 2 * 31416

\* Complex::arg of a number of phase x: the phase in (-pi, pi]
Wrap(x) ==
    LET m == x % TwoPi
    IN IF 2 * m > TwoPi THEN m - TwoPi ELSE m

\* arg of the sum over the short preamble: S times coarse
CoarsePhase(phi, sts_len) == Wrap(sts_len * phi)

\* the fine sum taken without the coarse correction
FinePhaseUncorrected(phi, lts_len, coarse_lts) == Wrap(lts_len * phi)

\* arg of the sum over the long preamble, each term multiplied by
\* coarse_lts_corr = exp(1 - i coarse L): L times fine
FinePhase(phi, lts_len, coarse_lts) == Wrap(lts_len * phi - coarse_lts)

\* The estimate, kept as L times its value: coarse = arg / S is not a whole
\* number of units, coarse * L is one when S divides L.
estimate_cfo(phi, sts_len, lts_len) ==
    IF lts_len % 2 /= 0 THEN Panic("assert lts_len % 2")
    ELSE LET coarse_lts == (CoarsePhase(phi, sts_len) * lts_len) \div sts_len
             fine_lts == FinePhase(phi, lts_len, coarse_lts)
         IN [panic |-> FALSE, called |-> TRUE, coarse_lts |-> coarse_lts,
             fine_lts |-> fine_lts, est_lts |-> coarse_lts + fine_lts]

\* lengths of the training sequences: those of the 802.11 files the default
\* configuration names, and those of the sequences of this model
TrainingLens == { <<16, 64>>, <<Len(sts), Len(lts)>> }

\* the trigger built and not fed
TrigUnused ==
    /\ stabilize_samps = 0
    /\ power_trig = 1
    /\ state = Skip(0)
    /\ hist = <<>>
    /\ ret = None
    /\ stream = <<>>
    /\ skipped = 0
    /\ idleCount = 0
    /\ openAt = [pos |-> 0, idleBefore |-> 0, emitsBefore |-> 0]
    /\ resetAt = 0
    /\ opens = 0
    /\ emits = <<>>

CfoInit ==
    /\ TrigUnused
    /\ pkt_spacing = 0
    /\ overflow_checks = TRUE
    /\ samps = <<>>
    /\ align_ret = NotCalled
    /\ parse_ret = NotCalled
    /\ layout = NoLayout
    /\ \E phi \in -MaxPhi..MaxPhi, ls \in TrainingLens :
          cfo_in = [phi |-> phi, sts_len |-> ls[1], lts_len |-> ls[2]]
    /\ cfo_ret = NotCalled
    /\ MonUnused

CallEstimateCfo ==
    /\ cfo_ret = NotCalled
    /\ cfo_ret' = estimate_cfo(cfo_in.phi, cfo_in.sts_len, cfo_in.lts_len)
    /\ UNCHANGED <<trigVars, alignVars, cfo_in, monVars>>

CfoNext == CallEstimateCfo

CfoSpec == CfoInit /\ [][CfoNext]_vars

----------------------------------------------------------------------------
(* The monitor: run_tx and run_rx on two threads that share close, and the *)
(* Ctrl-C handler that sets it.  A radio call is one step and either       *)
(* succeeds or fails.  Each thread counts its radio calls since it last    *)
(* loaded close (since_poll) and those made with close already set         *)
(* (after_close).                                                          *)

\* let margin = 5
margin == 5

\* run_tx, ready to enter the outer loop.  With the duty_cycle of main (0.5)
\* the silence is as long as the preamble and the asserts before the loop
\* hold.
TxStart ==
    [pc |-> "poll", r |-> 0, failed |-> FALSE, since_poll |-> 0,
     after_close |-> 0]

\* the counters stop at a value no run of the code reaches
CountTo(n) == IF n < MaxRepeats + 2 THEN n + 1 ELSE n

\* a radio call made by thread th: the counters after it
Called(th) ==
    [th EXCEPT !.since_poll = CountTo(@),
               !.after_close = IF close THEN CountTo(@) ELSE @]

\* close never seen by the transmitter
TxPollBlind ==
    /\ tx.pc = "poll"
    /\ tx' = [tx EXCEPT !.since_poll = 0, !.r = 0,
                        !.pc = IF mon.num_repeats = 0 THEN "silence"
                               ELSE "preamble"]
    /\ UNCHANGED <<trigVars, alignVars, cfoVars, mon, close, rx>>

\* while !close.load(Ordering::Relaxed), in run_tx
TxPoll ==
    /\ tx.pc = "poll"
    /\ tx' = [tx EXCEPT !.since_poll = 0, !.r = 0,
                        !.pc = IF close THEN "closed"
                               ELSE IF mon.num_repeats = 0 THEN "silence"
                               ELSE "preamble"]
    /\ UNCHANGED <<trigVars, alignVars, cfoVars, mon, close, rx>>

\* tx.send(&preamble), repetition r of num_repeats; an error breaks 'outer
TxSendPreamble ==
    /\ tx.pc = "preamble"
    /\ \E ok \in BOOLEAN :
          tx' = IF ok
                THEN [Called(tx) EXCEPT !.r = @ + 1,
                         !.pc = IF tx.r + 1 < mon.num_repeats
                                THEN "preamble" ELSE "silence"]
                ELSE [Called(tx) EXCEPT !.failed = TRUE, !.pc = "closed"]
    /\ UNCHANGED <<trigVars, alignVars, cfoVars, mon, close, rx>>

\* tx.send(&silence); an error breaks the loop
TxSendSilence ==
    /\ tx.pc = "silence"
    /\ \E ok \in BOOLEAN :
          tx' = IF ok
                THEN [Called(tx) EXCEPT !.pc = "poll"]
                ELSE [Called(tx) EXCEPT !.failed = TRUE, !.pc = "closed"]
    /\ UNCHANGED <<trigVars, alignVars, cfoVars, mon, close, rx>>

TxStep == TxPoll \/ TxSendPreamble \/ TxSendSilence

\* the Ctrl-C handler: close_handler.store(true, Ordering::Relaxed)
SetClose ==
    /\ tx.pc /= "unused"
    /\ ~close
    /\ close' = TRUE
    /\ UNCHANGED <<trigVars, alignVars, cfoVars, mon, tx, rx>>

(* run_rx.  What PktTrigger::push_samp returns for a sample is an input     *)
(* here: None, or a buffer of some length; and so is the place of the     *)
(* correlation peak in a window handed to lts_align.                       *)

\* 10 * sts.len() + 5 * lts.0.len() / 2 + lts.0.len() / 2
preamble_len ==
    10 * mon.sts_len + (5 * mon.lts_len) \div 2 + mon.lts_len \div 2

first_lts_margin == pkt_spacing + preamble_len

\* lts_align on a window of n samples whose largest product is at max_idx
AlignOn(n, max_idx) ==
    IF n < 2 * mon.lts_len THEN Panic("lts_align: peak range")
    ELSE IF Underflows(max_idx, mon.lts_len \div 2) /\ overflow_checks
    THEN Panic("lts_align: max_idx - lts.len() / 2")
    ELSE [panic |-> FALSE, val |-> GuardShift(max_idx, mon.lts_len)]

(* The monitor linked to its own transmitter (mon.linked): the packet is  *)
(* in samps, made of what run_tx sends, and the peaks are those lts_align *)
(* computes on it.  The margin of run_rx needs lts.len() / 2 > 5, so the  *)
(* linked monitor has an LTS of twelve samples.                           *)

mon_lts ==
    << <<1, 0>>, <<1, 0>>, <<0, 1>>, <<-1, 0>>, <<1, 0>>, <<0, -1>>,
       <<-1, 0>>, <<-1, 0>>, <<0, 1>>, <<1, 0>>, <<0, -1>>, <<0, 1>> >>

\* run_tx: 10 STS, lts.len() / 2 zeros, lts.iter().cycle().take(2 * len)
preamble == ShortPreamble \o Zeros(Len(mon_lts) \div 2) \o mon_lts \o mon_lts

\* vec![Complex::zero(); silence_len], with the duty_cycle of main (0.5):
\* silence_len = round(preamble.len() * (1 / 0.5 - 1)) = preamble.len()
silence == Zeros(Len(preamble))

RECURSIVE Repeated(_, _)
\* for _ in 0..n { tx.send(s) }: what is on the air
Repeated(s, n) == IF n = 0 THEN <<>> ELSE s \o Repeated(s, n - 1)

\* The buffer PktTrigger emits for one cycle of the transmitter received
\* without noise after lead quiet samples: the guard of lts.len() / 2 zeros
\* is shorter than pkt_spacing and keeps the packet open, and the silence
\* closes it after pkt_spacing + 1 samples.
TriggeredPacket(lead, n) ==
    Zeros(lead) \o Repeated(preamble, n) \o SubSeq(silence, 1, pkt_spacing + 1)

\* the peak lts_align finds on buf[lo..hi] (0 while the slice is out of
\* range: the slice panics before lts_align is called)
PeakOf(buf, lo, hi) ==
    IF ~SliceOk(lo, hi, Len(buf)) \/ hi - lo < 2 * Len(mon_lts) THEN 0
    ELSE LET w == Slice(buf, lo, hi)
         IN PeakLoop(Corr(w, mon_lts), Len(mon_lts),
                     Len(w) - 2 * Len(mon_lts), 0, 0, 0)

\* lengths of the buffers the trigger hands over: one too short for the
\* first alignment window, one that holds every repetition
PktLens ==
    IF mon.linked THEN { Len(samps) }
    ELSE { first_lts_margin - 1,
           pkt_spacing + (mon.num_repeats + 1) * preamble_len }

\* peaks of the first window: at its start, and where the long preamble of
\* a packet that starts at pkt_spacing is
FirstPeaks ==
    IF mon.linked THEN { PeakOf(samps, 0, first_lts_margin) }
    ELSE { 0, pkt_spacing + 10 * mon.sts_len + mon.lts_len \div 2 }

\* peaks of a re-alignment window: at its start, and with the next long
\* preamble margin early, in place, margin late and margin + 1 late
NextPeaks ==
    IF mon.linked
    THEN { PeakOf(samps, rx.cur_lts_start + preamble_len - margin,
                  rx.cur_lts_start + 2 * preamble_len) }
    ELSE { 0, mon.lts_len \div 2, mon.lts_len \div 2 + margin,
           mon.lts_len \div 2 + 2 * margin,
           mon.lts_len \div 2 + 2 * margin + 1 }

RxStart ==
    [pc |-> "poll", left |-> 0, i |-> 0, cur_lts_start |-> 0,
     expected_start |-> 0, pkt_len |-> 0, pkts |-> 0, callbacks |-> 0,
     drifted |-> FALSE, skipped |-> 0, failed |-> FALSE, since_poll |-> 0,
     after_close |-> 0, at |-> ""]

RxPanic(r, at) == [r EXCEPT !.pc = "panicked", !.at = at]

\* the drift test left out
DriftIgnored(cur, expected) == FALSE

\* (cur_lts_start as i64 - expected_start as i64).abs() > margin as i64
DriftExceeded(cur, expected) ==
    (IF cur < expected THEN expected - cur ELSE cur - expected) > margin

\* while !close.load(Ordering::Relaxed), in run_rx
RxPoll ==
    /\ rx.pc = "poll"
    /\ rx' = [rx EXCEPT !.since_poll = 0,
                        !.pc = IF close THEN "closed" ELSE "recv"]
    /\ UNCHANGED <<trigVars, alignVars, cfoVars, mon, close, tx>>

\* rx.recv(512): a buffer of samples, or an error that breaks the loop
RxRecv ==
    /\ rx.pc = "recv"
    /\ \/ \E n \in 1..MaxRecv :
             rx' = [Called(rx) EXCEPT !.left = n, !.pc = "samples"]
       \/ rx' = [Called(rx) EXCEPT !.failed = TRUE, !.pc = "closed"]
    /\ UNCHANGED <<trigVars, alignVars, cfoVars, mon, close, tx>>

\* a packet of len samples was returned for the sample: the first alignment
StartPacket(len, max_idx) ==
    LET r == [rx EXCEPT !.left = @ - 1, !.pkts = @ + 1, !.pkt_len = len,
                        !.callbacks = 0, !.drifted = FALSE, !.i = 0,
                        !.expected_start = 0]
    IN IF ~SliceOk(0, first_lts_margin, len)
       THEN RxPanic(r, "pkt[..first_lts_margin]")
       ELSE LET a == AlignOn(first_lts_margin, max_idx) IN
       IF a.panic THEN RxPanic(r, a.at)
       ELSE [r EXCEPT !.cur_lts_start = a.val,
                      !.pc = IF mon.num_repeats = 0 THEN "samples"
                             ELSE "repeat"]

\* for samp in buf.0: push_samp, and the start of the processing of the
\* packet it returns, if any
RxSample ==
    /\ rx.pc = "samples"
    /\ IF rx.left = 0
       THEN rx' = [rx EXCEPT !.pc = "poll"]
       ELSE \/ rx' = [rx EXCEPT !.left = @ - 1]
            \/ /\ rx.pkts < MaxPkts
               /\ \E len \in PktLens, max_idx \in FirstPeaks :
                     rx' = StartPacket(len, max_idx)
    /\ UNCHANGED <<trigVars, alignVars, cfoVars, mon, close, tx>>

\* the re-alignment after repetition i, with the callback already made
Realign(r, max_idx) ==
    LET expected_start == r.cur_lts_start + preamble_len
        lo == expected_start - margin
        hi == expected_start + preamble_len
        q == [r EXCEPT !.expected_start = expected_start]
    IN IF ~(margin < mon.lts_len \div 2)
       THEN RxPanic(r, "assert margin")
       ELSE IF ~SliceOk(lo, hi, r.pkt_len)
       THEN RxPanic(q, "pkt[expected_start - margin..]")
       ELSE LET a == AlignOn(hi - lo, max_idx) IN
       IF a.panic THEN RxPanic(q, a.at)
       ELSE LET cur == lo + a.val
                far == cur > expected_start + margin
                          \/ cur < expected_start - margin
            IN IF DriftExceeded(cur, expected_start)
               THEN [q EXCEPT !.cur_lts_start = cur, !.drifted = far,
                              !.skipped = @ + 1, !.pc = "samples"]
               ELSE [q EXCEPT !.cur_lts_start = cur, !.drifted = far,
                              !.i = @ + 1]

\* one iteration of for i in 0..config.num_repeats
Repeat(max_idx) ==
    LET cur == rx.cur_lts_start
        short_lo == cur - 10 * mon.sts_len
        long_hi == cur + (5 * mon.lts_len) \div 2
    IN IF Underflows(cur, 10 * mon.sts_len) /\ overflow_checks
       THEN RxPanic(rx, "cur_lts_start - 10 * sts.len()")
       ELSE IF ~SliceOk(short_lo, cur, rx.pkt_len)
       THEN RxPanic(rx, "pkt[cur_lts_start - 10 * sts.len()..cur_lts_start]")
       ELSE IF ~SliceOk(cur, long_hi, rx.pkt_len)
       THEN RxPanic(rx, "pkt[cur_lts_start..cur_lts_start + 5 * lts.0.len() / 2]")
       ELSE LET r == [rx EXCEPT !.callbacks = @ + 1] IN
       IF rx.i < mon.num_repeats - 1
       THEN Realign(r, max_idx)
       ELSE [r EXCEPT !.i = @ + 1, !.pc = "samples"]

RxRepeat ==
    /\ rx.pc = "repeat"
    /\ \E max_idx \in NextPeaks : rx' = Repeat(max_idx)
    /\ UNCHANGED <<trigVars, alignVars, cfoVars, mon, close, tx>>

RxStep == RxPoll \/ RxRecv \/ RxSample \/ RxRepeat

\* main: the configuration, the flag cleared and the two threads spawned
MonitorInit ==
    /\ TrigUnused
    /\ overflow_checks \in BOOLEAN
    /\ samps = <<>>
    /\ align_ret = NotCalled
    /\ parse_ret = NotCalled
    /\ layout = NoLayout
    /\ CfoUnused
    /\ \E n \in 0..MaxRepeats, ls \in TrainingLens :
          /\ mon = [num_repeats |-> n, sts_len |-> ls[1], lts_len |-> ls[2],
                    linked |-> FALSE]
          /\ pkt_spacing = ls[2]
    /\ close = FALSE
    /\ tx = TxStart
    /\ rx = RxStart

MonitorNext == TxStep \/ RxStep \/ SetClose

MonitorSpec == MonitorInit /\ [][MonitorNext]_vars

\* the threads keep being scheduled and radio calls return
MonitorFairSpec == MonitorSpec /\ WF_vars(TxStep) /\ WF_vars(RxStep)

\* where the packet starts in the buffer the trigger emits: right at its
\* start, or after the pkt_spacing quiet samples the trigger keeps
Leads == { 0, pkt_spacing }

\* main with the receiver fed by the transmitter: pkt_spacing is the length
\* of the LTS, and every packet the trigger emits is one cycle
LinkInit ==
    /\ TrigUnused
    /\ pkt_spacing = Len(mon_lts)
    /\ overflow_checks \in BOOLEAN
    /\ align_ret = NotCalled
    /\ parse_ret = NotCalled
    /\ CfoUnused
    /\ \E n \in 1..(MaxRepeats + 1), lead \in Leads :
          /\ mon = [num_repeats |-> n, sts_len |-> Len(sts),
                    lts_len |-> Len(mon_lts), linked |-> TRUE]
          /\ samps = TriggeredPacket(lead, n)
          /\ layout = [whole |-> FALSE, lead |-> lead]
    /\ close = FALSE
    /\ tx = TxStart
    /\ rx = RxStart

LinkSpec == LinkInit /\ [][MonitorNext]_vars

----------------------------------------------------------------------------
(* Properties of the trigger *)

Min(a, b) == IF a < b THEN a ELSE b

\* stream index (1-based) of the first sample of the i-th emitted buffer
FirstOf(i) == emits[i].last - Len(emits[i].buf) + 1

\* 0-based index, inside the i-th emitted buffer, of the sample that caused
\* the Idle -> Packet transition
OpenIndex(i) == emits[i].open.pos - FirstOf(i)

\* number of samples of the i-th emitted buffer that follow the last sample
\* which set the quiet counter to 0
SuffixLen(i) == emits[i].last - emits[i].reset

\* C1 as stated: every emitted buffer ends exactly pkt_spacing samples after
\* the last sample that set the quiet counter to 0.
C1_SuffixIsPktSpacing ==
    \A i \in DOMAIN emits : SuffixLen(i) = pkt_spacing

\* C1 amended: every emitted buffer ends exactly pkt_spacing + 1 samples
\* after the last sample that set the quiet counter to 0, and that sample
\* lies inside the buffer.
C1_SuffixIsPktSpacingPlusOne ==
    \A i \in DOMAIN emits :
        /\ SuffixLen(i) = pkt_spacing + 1
        /\ SuffixLen(i) < Len(emits[i].buf)

\* a buffer was emitted whose packet was kept open by a later sample than
\* the one that opened it, with a non-zero pkt_spacing
C1_Witness ==
    \E i \in DOMAIN emits :
        /\ emits[i].reset > emits[i].open.pos
        /\ pkt_spacing >= 1

\* C2 as stated: in every emitted buffer the sample that caused the
\* Idle -> Packet transition is at index >= pkt_spacing.
C2_PrefixAtLeastPktSpacing ==
    \A i \in DOMAIN emits : OpenIndex(i) >= pkt_spacing

\* C2 amended: in every emitted buffer the index of the sample that caused
\* the Idle -> Packet transition is the smaller of pkt_spacing and the number
\* of samples that were pushed before it after the startup skip; it is never
\* more than pkt_spacing.
C2_PrefixIsMinOfSpacingAndSeen ==
    \A i \in DOMAIN emits :
        OpenIndex(i) = Min(pkt_spacing, emits[i].open.pos - 1 - skipped)

\* a buffer was emitted for a burst that arrived right after the startup
\* skip, with a non-zero pkt_spacing
C2_Witness ==
    \E i \in DOMAIN emits :
        /\ emits[i].open.pos = skipped + 1
        /\ pkt_spacing >= 1

\* C3: if at least pkt_spacing samples were handled in Idle since startup,
\* or a buffer was emitted before, the sample that caused Idle -> Packet is
\* at index exactly pkt_spacing of the next emitted buffer; and every opened
\* packet yields exactly one buffer (the i-th buffer belongs to the i-th
\* Idle -> Packet transition, and a packet is open exactly when one
\* transition has no buffer yet).
C3_FirstBurstSampleAtPktSpacing ==
    /\ \A i \in DOMAIN emits :
        /\ (emits[i].open.idleBefore >= pkt_spacing \/ emits[i].open.emitsBefore > 0)
              => OpenIndex(i) = pkt_spacing
        /\ emits[i].open.emitsBefore = i - 1
    /\ opens = Len(emits) + (IF state.tag = "Packet" THEN 1 ELSE 0)

\* two bursts separated by exactly pkt_spacing + 1 quiet samples were each
\* emitted: the second burst starts on the push after the first emit
C3_Witness ==
    /\ Len(emits) = 2
    /\ pkt_spacing >= 1
    /\ emits[2].open.pos = emits[1].last + 1
    /\ OpenIndex(2) = pkt_spacing

\* C4 as stated: exactly stabilize_samps samples are discarded at startup,
\* so that the sample at 0-based position stabilize_samps is handled in Idle.
C4_SkipsStabilizeSamps ==
    Len(stream) > stabilize_samps => skipped = stabilize_samps

\* C5 as stated: every emitted buffer is longer than 10*S + 3*L/2.
C5_EmitIsPacketCandidate ==
    \A i \in DOMAIN emits :
        Len(emits[i].buf) > 10 * Len(sts) + (3 * Len(lts)) \div 2

\* C6: after a push_samp call returns, an Idle trigger holds at most
\* pkt_spacing samples, and so does the trigger right after a call that
\* emitted a buffer.
C6_HistoryBounded ==
    /\ state.tag = "Idle" => Len(hist) <= pkt_spacing
    /\ ret /= None => Len(hist) <= pkt_spacing

\* a call has just emitted a buffer and left a full history behind
C6_Witness ==
    /\ ret /= None
    /\ Len(hist) = pkt_spacing
    /\ pkt_spacing >= 1

\* C7: every emitted buffer is the contiguous run of the input stream that
\* ends at the sample whose push emitted it, and of two successive buffers
\* the later one starts and ends at later stream positions.
C7_BuffersAreOrderedRuns ==
    /\ \A i \in DOMAIN emits :
        /\ FirstOf(i) >= 1
        /\ emits[i].buf = SubSeq(stream, FirstOf(i), emits[i].last)
    /\ \A i \in DOMAIN emits : \A j \in DOMAIN emits :
        i < j => FirstOf(i) < FirstOf(j) /\ emits[i].last < emits[j].last
    /\ ret /= None =>
        ret[1] = SubSeq(stream, Len(stream) - Len(ret[1]) + 1, Len(stream))

\* two buffers were emitted, the second starting with guard samples that
\* also end the first
C7_Witness ==
    /\ Len(emits) = 2
    /\ FirstOf(2) <= emits[1].last
    /\ FirstOf(2) > FirstOf(1)

\* C8: a call made in Skip or Idle returns nothing, a sample with
\* |s|^2 <= power_trig pushed in Idle leaves the state Idle, a buffer is
\* returned only by a call made in Packet, and a call adds at most one buffer.
C8_EmitOnlyInPacket ==
    [][ /\ state.tag \in {"Skip", "Idle"} => ret' = None
        /\ ret' /= None => state.tag = "Packet"
        /\ (state.tag = "Idle" /\ ~EntersPacket(stream'[Len(stream')]))
              => state'.tag = "Idle"
        /\ Len(emits') <= Len(emits) + 1
        /\ Len(ret') <= 1 ]_vars

\* a quiet sample was just handled in Idle, after a buffer had been emitted
C8_Witness ==
    /\ state.tag = "Idle"
    /\ ret = None
    /\ Len(emits) >= 1
    /\ emits[Len(emits)].last < Len(stream)
    /\ ~EntersPacket(stream[Len(stream)])

----------------------------------------------------------------------------
(* Properties of the aligner and of the parser's head *)

\* c[i] * c[i + L] for the 0-based offset i of pkt
PeakProduct(pkt, i) == Corr(pkt, lts)[i + 1] * Corr(pkt, lts)[i + Len(lts) + 1]

\* the candidate offsets [0, N - 2L)
PeakRange(pkt) == 0..(Len(pkt) - 2 * Len(lts) - 1)

\* the smallest offset of the range that maximises c[i] * c[i + L]
EarliestPeak(pkt) ==
    CHOOSE m \in PeakRange(pkt) :
        /\ \A j \in PeakRange(pkt) : PeakProduct(pkt, j) <= PeakProduct(pkt, m)
        /\ \A j \in PeakRange(pkt) : j < m => PeakProduct(pkt, j) < PeakProduct(pkt, m)

\* the window parse_80211_pkt hands to lts_align
AlignWindow == Slice(samps, 0, lts_bound)

\* C9 as stated: for a buffer of N samples (N > 2L, so that [0, N - 2L) has
\* an index) lts_align returns the offset m - L/2, m the smallest index
\* that maximises c[i] * c[i + L].
C9_ReturnsEarliestPeakMinusGuard ==
    (align_ret /= NotCalled /\ Len(samps) > 2 * Len(lts)) =>
        /\ ~align_ret.panic
        /\ align_ret.val >= 0
        /\ align_ret.val = EarliestPeak(samps) - Len(lts) \div 2

\* The part of C9 the code does satisfy: whenever lts_align returns, the
\* index it shifted is the smallest maximiser, and the offset is m - L/2
\* whenever that is not negative.
LtsAlignPicksEarliestPeak ==
    (align_ret /= NotCalled /\ ~align_ret.panic) =>
        /\ Len(samps) >= 2 * Len(lts)
        /\ Len(samps) > 2 * Len(lts) => align_ret.max_idx = EarliestPeak(samps)
        /\ Len(samps) = 2 * Len(lts) => align_ret.max_idx = 0
        /\ align_ret.max_idx >= Len(lts) \div 2 =>
              align_ret.val = align_ret.max_idx - Len(lts) \div 2
        /\ align_ret.max_idx < Len(lts) \div 2 => ~overflow_checks /\ align_ret.val < 0

\* lts_align returned with a maximiser that is not the first index and that
\* ties with a later index
LtsAlignPicksEarliestPeak_Witness ==
    /\ align_ret /= NotCalled
    /\ ~align_ret.panic
    /\ align_ret.max_idx >= Len(lts) \div 2
    /\ \E j \in PeakRange(samps) :
          /\ j > align_ret.max_idx
          /\ PeakProduct(samps, j) = PeakProduct(samps, align_ret.max_idx)

\* C10 as stated: when the alignment window holds no correlation peak
\* (every product is zero, or the maximum lies below L/2), lts_align returns
\* an offset and parse_80211_pkt returns a result instead of failing.
C10_AlignFailureIsNoError ==
    /\ (/\ parse_ret /= NotCalled
        /\ LongEnough(samps)
        /\ lts_bound <= Len(samps)
        /\ EarliestPeak(AlignWindow) < Len(lts) \div 2)
          => ~parse_ret.panic
    /\ (/\ align_ret /= NotCalled
        /\ Len(samps) > 2 * Len(lts)
        /\ EarliestPeak(samps) < Len(lts) \div 2)
          => ~align_ret.panic

----------------------------------------------------------------------------
(* Properties of the parser's data-symbol loop and of the equalisation *)

Parsed == parse_ret /= NotCalled /\ ~parse_ret.panic

\* the symbol the loop looks at from position i
SymbolAt(i) == Slice(samps, i + Len(lts) \div 4, i + symbol_stride)

\* C11: the data-symbol loop stops only when the low-energy test fires or
\* when fewer than 5 L / 4 samples remain from the position it stopped at,
\* so a symbol with exactly 5 L / 4 samples left that is not low-energy is
\* demodulated.
C11_StopsOnlyWhenLowOrShort ==
    Parsed =>
        \/ /\ parse_ret.stop = "low"
           /\ LowEnergy(SymbolAt(parse_ret.i), parse_ret.long)
        \/ /\ parse_ret.stop = "end"
           /\ Len(samps) - parse_ret.i < symbol_stride

\* subcarriers (0-based) the reference has, in increasing order
PresentIdx ==
    SelectSeq([k \in 1..Len(lts) |-> k - 1], LAMBDA j : lts_freq[j + 1] /= None)

NumPresent == Len(PresentIdx)

\* where the first data symbol of a whole packet starts
data_start == layout.lead + short_len + (5 * Len(lts)) \div 2

\* the points of layout.n symbols: symbol by symbol, subcarriers increasing
ExpectedPoints ==
    [j \in 1..(layout.n * NumPresent) |->
        [at |-> data_start + ((j - 1) \div NumPresent) * symbol_stride,
         k |-> PresentIdx[((j - 1) % NumPresent) + 1]]]

\* a whole packet that starts within the first pkt_spacing samples and ends
\* with at least 2 L zeros
CleanPacket ==
    /\ layout.whole
    /\ layout.lead < pkt_spacing
    /\ layout.tail >= 2 * Len(lts)

\* C12: on a packet of n data symbols followed by at least 2 L low-energy
\* samples the parser returns exactly the points of the n symbols, in
\* symbol order and by increasing subcarrier within a symbol; whatever the
\* input, the number of points returned is a multiple of the number of
\* present subcarriers.
C12_ReturnsPointsOfEverySymbol ==
    /\ Parsed => Len(parse_ret.res) % NumPresent = 0
    /\ (parse_ret /= NotCalled /\ CleanPacket) =>
            /\ ~parse_ret.panic
            /\ parse_ret.res = ExpectedPoints

C12_Witness ==
    /\ Parsed
    /\ CleanPacket
    /\ layout.n = 2
    /\ Len(parse_ret.res) = 2 * NumPresent
    /\ NumPresent < Len(lts)

\* the points of the result that belong to the symbol at position i
PointsAt(i) == SelectSeq(parse_ret.res, LAMBDA pt : pt.at = i)

\* C13: the equalisation vector has L elements, element k is absent exactly
\* when element k of the frequency-domain reference is absent, and every
\* demodulated symbol yields one point per present element.
C13_AbsentWhereReferenceAbsent ==
    Parsed =>
        /\ Len(parse_ret.equalization) = Len(lts)
        /\ \A k \in 1..Len(lts) :
              (parse_ret.equalization[k] = None) <=> (lts_freq[k] = None)
        /\ \A j \in 1..Len(parse_ret.res) :
              LET pts == PointsAt(parse_ret.res[j].at) IN
              /\ Len(pts) = NumPresent
              /\ \A q \in 1..Len(pts) : pts[q].k = PresentIdx[q]

C13_Witness ==
    /\ Parsed
    /\ \E k \in 1..Len(lts) : parse_ret.equalization[k] = None
    /\ \E k \in 1..Len(lts) : parse_ret.equalization[k] /= None
    /\ Len(parse_ret.long) = (5 * Len(lts)) \div 2
    /\ parse_ret.res /= <<>>

----------------------------------------------------------------------------
(* Properties of the CFO estimator *)

Abs(x) == IF x < 0 THEN -x ELSE x

CfoCalled == cfo_ret /= NotCalled /\ ~cfo_ret.panic

\* L times (phi_hat - phi), in units of 1e-4 rad
CfoErrorLts == cfo_ret.est_lts - cfo_in.lts_len * cfo_in.phi

\* C14: for every rotation phi in [-0.5, 0.5] rad per sample the estimate
\* coarse + fine is within 1e-4 rad (one unit) of phi.
C14_EstimateWithinTolerance ==
    CfoCalled => Abs(CfoErrorLts) < cfo_in.lts_len

\* C14, amended: the estimate is phi when S |phi| < pi; when S |phi| > pi
\* it is phi less a non-zero multiple of 2 pi / S (the coarse phase S phi
\* wraps and the fine stage cannot restore it).
C14_EstimateIsPhiUpToAliasing ==
    CfoCalled =>
        /\ 2 * cfo_in.sts_len * Abs(cfo_in.phi) < TwoPi => CfoErrorLts = 0
        /\ 2 * cfo_in.sts_len * Abs(cfo_in.phi) > TwoPi =>
              /\ CfoErrorLts /= 0
              /\ (CfoErrorLts * cfo_in.sts_len) % (TwoPi * cfo_in.lts_len) = 0

\* the rotation of test_cfo_estimation_and_correction, 0.1 rad per sample
C14_Witness ==
    /\ CfoCalled
    /\ cfo_in.sts_len = 16
    /\ cfo_in.lts_len = 64
    /\ cfo_in.phi = 1000
    /\ cfo_ret.fine_lts = 0
    /\ cfo_ret.est_lts = 64 * 1000

----------------------------------------------------------------------------
(* Properties of the monitor *)

Started == tx.pc /= "unused"

\* C15: after a failed send in run_tx or a failed recv in run_rx the close
\* flag is set, so that the other thread is told to leave its loop.
C15_FailureSetsClose ==
    Started => ((tx.failed \/ rx.failed) => close)

\* C16: each thread loads close between every two consecutive radio calls,
\* so that with close set a thread makes no radio call after the one it was
\* about to make.
C16_PolledBetweenRadioCalls ==
    Started =>
        /\ tx.since_poll <= 1 /\ rx.since_poll <= 1
        /\ tx.after_close <= 1 /\ rx.after_close <= 1

BothReturned == tx.pc = "closed" /\ rx.pc \in {"closed", "panicked"}

\* C16, amended: run_rx loads close before every recv and makes at most one
\* recv once close is set; run_tx loads it once per cycle of num_repeats
\* preambles and one silence and makes at most num_repeats + 1 sends once it
\* is set; with close set both threads come to an end.
C16_PolledOncePerCycle ==
    /\ [](Started =>
            /\ rx.since_poll <= 1 /\ rx.after_close <= 1
            /\ tx.since_poll <= mon.num_repeats + 1
            /\ tx.after_close <= mon.num_repeats + 1)
    /\ ((Started /\ close) ~> BothReturned)

C16_Witness ==
    /\ Started /\ close
    /\ mon.num_repeats = 2
    /\ tx.pc = "closed" /\ ~tx.failed /\ tx.after_close = 3
    /\ rx.pc = "closed" /\ ~rx.failed /\ rx.after_close = 1

\* C17: once the re-aligned start is more than margin away from the
\* expected start, the callback is not made again for that packet and the
\* receiver does not stop: it goes on with the samples that follow in the
\* buffer; and no packet gets more than num_repeats callbacks.
C17_DriftSkipsRestOfPacket ==
    /\ [](Started =>
            /\ rx.callbacks <= mon.num_repeats
            /\ rx.drifted => rx.pc \in {"samples", "poll", "recv", "closed"})
    /\ [][Started =>
            /\ (rx.drifted /\ rx.pkts' = rx.pkts) =>
                  rx.callbacks' = rx.callbacks /\ rx.pc' /= "panicked"
            /\ (~rx.drifted /\ rx.drifted') =>
                  rx.pc' = "samples" /\ rx.left' = rx.left]_vars

\* a packet whose remainder was skipped, and the next one being processed
C17_Witness ==
    /\ Started
    /\ rx.skipped = 1 /\ rx.pkts = 2 /\ ~rx.drifted
    /\ rx.pc = "samples" /\ rx.callbacks = mon.num_repeats
    /\ mon.num_repeats = 2

----------------------------------------------------------------------------
(* Properties of the trigger's Packet state *)

\* the sample of the call just made
Pushed == stream'[Len(stream')]

\* |s|^2 >= power_trig, in half units: a*a/4 >= p/2
PowerAtLeastTrig(samp) == samp * samp >= 2 * power_trig

\* C18: in the Packet state every sample is appended to the history, and
\* the quiet counter is set to 0 exactly when |s|^2 >= power_trig (the
\* quantity packet entry compares) and incremented otherwise.
C18_ContinuationComparesPower ==
    [][state.tag = "Packet" =>
          /\ \/ hist' = Append(hist, Pushed)
             \/ ret' = Some(Append(hist, Pushed))
          /\ PowerAtLeastTrig(Pushed) <=> state' = Packet(0)
          /\ ~PowerAtLeastTrig(Pushed) =>
                state' = Packet(state.n + 1) \/ ret' /= None]_vars

\* in the Packet state: the samples pushed since the packet was opened or
\* last kept open
QuietSince == Len(stream) - resetAt

\* C19: in the Packet state a buffer is emitted exactly on the push of the
\* (pkt_spacing + 1)-th consecutive sample below the continuation
\* threshold, not earlier and not later, and the trigger is then Idle.
C19_EmitOnLastQuietSample ==
    /\ [](state.tag = "Packet" =>
            /\ QuietSince <= pkt_spacing
            /\ \A j \in (resetAt + 1)..Len(stream) :
                  ~ContinuesPacket(stream[j]))
    /\ [][LET emitted == ret' /= None
               last_quiet == /\ state.tag = "Packet"
                             /\ ~ContinuesPacket(Pushed)
                             /\ QuietSince = pkt_spacing
           IN /\ emitted <=> last_quiet
              /\ emitted =>
                    /\ state' = Idle
                    /\ \A j \in (Len(stream') - pkt_spacing)..Len(stream') :
                          ~ContinuesPacket(stream'[j])]_vars

\* a packet that was kept open by a sample after a quiet one, then closed
C19_Witness ==
    /\ ret /= None
    /\ state = Idle
    /\ pkt_spacing = 2
    /\ \E i \in DOMAIN emits :
          /\ emits[i].last = Len(stream)
          /\ emits[i].reset > emits[i].open.pos + 1
          /\ emits[i].last - emits[i].reset = pkt_spacing + 1

----------------------------------------------------------------------------
(* Properties of the parser's slices *)

\* C20: on every buffer that passes the length assertion of the parser,
\* whatever offset lts_align returns, the alignment window, the short
\* preamble, the long preamble and every data symbol lie inside the buffer
\* and no index underflows: the parser does not panic.
C20_SlicesInsideBuffer ==
    (parse_ret /= NotCalled /\ LongEnough(samps)) => ~parse_ret.panic

----------------------------------------------------------------------------
(* Properties of the monitor fed by its own transmitter *)

\* where the long preamble (guard included) of repetition k of the cycle
\* starts in the buffer the receiver processes, k counted from 0
LongStart(k) == layout.lead + k * Len(preamble) + 10 * mon.sts_len

\* C21: transmitter and receiver agree on the preamble period.  The
\* preamble has 10*S + L/2 + 2*L samples and is sent num_repeats times
\* before the silence; without drift the receiver does not panic, the start
\* it expects for the next long preamble (cur_lts_start + preamble_len) is
\* the start of a transmitted long preamble, the re-alignment stays within
\* the margin, and a processed packet has had all num_repeats callbacks.
C21_ExpectedStartIsActualStart ==
    mon.linked =>
       /\ Len(preamble) = 10 * mon.sts_len + mon.lts_len \div 2
                             + 2 * mon.lts_len
       /\ tx.pc = "silence" => tx.r = mon.num_repeats
       /\ rx.pc /= "panicked"
       /\ rx.expected_start /= 0 =>
             /\ \E k \in 1..(mon.num_repeats - 1) :
                   rx.expected_start = LongStart(k)
             /\ ~rx.drifted
       /\ (rx.pkts > 0 /\ rx.pc /= "repeat") =>
             rx.callbacks = mon.num_repeats

\* What the receiver does instead: the start it expects is lts.len() / 2
\* past the start of the next long preamble, since it advances by
\* 10*S + 3*L samples where the transmitter advances by 10*S + 5*L/2, and
\* no packet gets past its first repetition.
LinkExpectedHalfLtsLate ==
    mon.linked =>
       /\ rx.expected_start /= 0 =>
             rx.expected_start = LongStart(rx.i + 1) + mon.lts_len \div 2
       /\ rx.callbacks <= 1

====
